---------------------------- MODULE Spec2Model ----------------------------
(***************************************************************************)
(* Session and device-state synchronisation layer of the mi-music web      *)
(* client.                                                                 *)
(*                                                                         *)
(* Part 1 (SpecGateway): the axios instance "http" with its request and    *)
(* response interceptors, the token storage in localStorage, system login  *)
(* (authService.saveAuth) and system logout (authService.logout).          *)
(*                                                                         *)
(* Part 2 (SpecDevices): the AppStateProvider's device directory:          *)
(* fetchDevices with its in-flight flag and fingerprint, selectDevice as   *)
(* reached from the device drop-down, the restore-on-mount effect and the  *)
(* vendor indicator inferred from the device count.  SpecVendor adds the   *)
(* explicit status query (checkXiaomiStatus) and the refresh button.       *)
(*                                                                         *)
(* Part 3 (SpecPlayer, SpecSelector): getDeviceSelector and the handlers   *)
(* of PlayerControls, TTSControl and DeviceStatus that send device-scoped  *)
(* commands, together with the vendor logout (xiaomiLogout).               *)
(*                                                                         *)
(* Part 4 (SpecSession, SpecExpiry): the useAuth instances with checkAuth  *)
(* and logout, the two logout handlers (MainLayout, Settings) and the      *)
(* page load that follows the gateway's teardown.                          *)
(*                                                                         *)
(* Part 5 (SpecLogin, SpecAccount): the handlers of LoginPage, xiaomiLogin *)
(* with the status query it awaits, and all the writers of the vendor      *)
(* indicator together.  SpecHistory is the device directory with a history *)
(* variable that keeps the fingerprint of the last successful fetch.       *)
(*                                                                         *)
(* JavaScript runs one task at a time: everything a handler does between   *)
(* two awaits of a network response is one step here.                      *)
(***************************************************************************)
EXTENDS Integers, Sequences, FiniteSets

(* ---- bounds of the model ---- *)
\* number of logical gateway requests followed at once
MaxReq == 2
\* number of tokens the backend issues in one run
MaxTokens == 4
\* number of callers of fetchDevices followed at once
MaxCalls == 2
\* longest device list the backend returns
MaxDevices == 2
\* number of explicit vendor status queries in flight at once
MaxQueries == 1

(* ---- values ---- *)
\* an absent localStorage item / an absent Authorization header
None == 0
\* an optional number that is not there (devices_count?: number)
Undefined == -1
Req == 1..MaxReq
Call == 1..MaxCalls

VARIABLES
  accessToken,    \* localStorage 'accessToken' (None when absent)
  refreshToken,   \* localStorage 'refreshToken'
  user,           \* localStorage 'user' present
  redirected,     \* window.location.href was set to '/login'
  issued,         \* backend: number of tokens issued so far
  req,            \* per logical request: position and request config
  devices,        \* React state: devices
  selectedDevice, \* React state: selectedDevice, <<>> for null
  isFetchingDevices, \* isFetchingDevicesRef.current
  devicesHash,    \* devicesHashRef.current
  xiaomiStatus,   \* React state: xiaomiStatus
  lsSelectedDevice, \* localStorage 'selectedDevice', <<>> when absent
  lsXiaomiStatus, \* localStorage 'xiaomiStatus', <<>> when absent
  call,           \* per caller of fetchDevices: position
  query,          \* the calls of checkXiaomiStatus in flight
  xlogout,        \* the call of xiaomiLogout: position and caller
  command,        \* the last device-scoped command handler that ran
  isAuthenticated, \* React state of each useAuth instance
  checkAuth,      \* per useAuth instance: position of its checkAuth
  lastFetched,    \* history: fingerprint of the last successful fetch
  loginPage,      \* LoginPage: its state and the position of its handler
  xlogin          \* the call of xiaomiLogin: position and caller

gwVars == <<accessToken, refreshToken, user, redirected, issued, req>>
devVars == <<devices, selectedDevice, isFetchingDevices, devicesHash,
             xiaomiStatus, lsSelectedDevice, lsXiaomiStatus, call,
             lastFetched>>
appVars == <<query, xlogout, command, isAuthenticated, checkAuth,
             loginPage, xlogin>>
vars == <<accessToken, refreshToken, user, redirected, issued, req,
          devices, selectedDevice, isFetchingDevices, devicesHash,
          xiaomiStatus, lsSelectedDevice, lsXiaomiStatus, call,
          query, xlogout, command, isAuthenticated, checkAuth,
          lastFetched, loginPage, xlogin>>

(***************************************************************************)
(* Part 1: request gateway                                                 *)
(***************************************************************************)

\* A logical request before it is sent. hdr is config.headers.Authorization,
\* retry is config._retry. The other fields record what happened to it:
\* atSend the stored access token when it was last sent, sends the number of
\* times it went to the network, refreshes the number of POST /auth/refresh
\* its error handler made, rejected the bearer of the send that got the first
\* 401, granted the access_token of its refresh response, outcome what its
\* refresh did to the store, result how the call ended for its caller.
NewRequest ==
  [pc |-> "idle", retry |-> FALSE, hdr |-> None, atSend |-> None,
   sends |-> 0, refreshes |-> 0, rejected |-> None, granted |-> None,
   outcome |-> "none", result |-> "none"]

\* http.interceptors.request.use: the stored token, when there is one,
\* replaces the Authorization header; otherwise the config is left as it is.
RequestInterceptor(hdr, token) ==
  IF token # None THEN token ELSE hdr

\* Variant: a handler that does not look at _retry.
ShouldRefreshAlways(status, retry) == status = 401
\* `error.response?.status === 401 && !originalRequest._retry`
ShouldRefresh(status, retry) == status = 401 /\ ~retry

\* `response.data.success && response.data.access_token`
RefreshAccepted(resp) == resp.success /\ resp.access_token # None

\* Variant: the new access token is not written to the store.
SetTokensKeepAccess(access, refresh, resp) ==
  <<access, IF resp.refresh_token # None THEN resp.refresh_token ELSE refresh>>
\* localStorage.setItem('accessToken', access_token); the refresh token is
\* written only when the response carries one. Returns the pair stored.
SetTokens(access, refresh, resp) ==
  <<resp.access_token,
    IF resp.refresh_token # None THEN resp.refresh_token ELSE refresh>>

\* Variant: the original config is sent again as it was.
RetryHeaderUnchanged(old, access_token, stored) == old
\* originalRequest.headers.Authorization = `Bearer ${access_token}` followed by
\* http(originalRequest), which runs the request interceptor on that config.
RetryHeader(old, access_token, stored) ==
  RequestInterceptor(access_token, stored)

GatewayInit ==
  /\ accessToken = None
  /\ refreshToken = None
  /\ user = FALSE
  /\ redirected = FALSE
  /\ issued = 0
  /\ req = [r \in Req |-> NewRequest]

\* useAuth.login of the instance h with a successful response:
\* authService.saveAuth stores both tokens and the user record, then the
\* instance's own state is set.
UseAuthLogin(h) ==
  /\ issued + 2 <= MaxTokens
  /\ accessToken' = issued + 1
  /\ refreshToken' = issued + 2
  /\ user' = TRUE
  /\ issued' = issued + 2
  /\ redirected' = FALSE
  /\ isAuthenticated' = [isAuthenticated EXCEPT ![h] = TRUE]
  /\ UNCHANGED req

\* A system login that succeeded; the login page is the caller of login.
Login ==
  /\ UseAuthLogin("LoginPage")
  /\ UNCHANGED devVars
  /\ UNCHANGED <<query, xlogout, command, checkAuth, loginPage, xlogin>>

\* authService.logout
Logout ==
  /\ accessToken' = None
  /\ refreshToken' = None
  /\ user' = FALSE
  /\ UNCHANGED <<redirected, issued, req>>
  /\ UNCHANGED devVars
  /\ UNCHANGED appVars

\* request.get/post/...: a new call goes through the request interceptor and
\* onto the network. A finished slot is reused for the next logical request.
Send(r) ==
  /\ req[r].pc \in {"idle", "done"}
  /\ req' = [req EXCEPT ![r] =
       [NewRequest EXCEPT !.pc = "sent",
                          !.hdr = RequestInterceptor(None, accessToken),
                          !.atSend = accessToken,
                          !.sends = 1]]
  /\ UNCHANGED <<accessToken, refreshToken, user, redirected, issued>>
  /\ UNCHANGED devVars
  /\ UNCHANGED appVars

\* A 2xx response: the response interceptor hands it to the caller.
Respond2xx(r) ==
  /\ req[r].pc = "sent"
  /\ req' = [req EXCEPT ![r].pc = "done", ![r].result = "response"]
  /\ UNCHANGED <<accessToken, refreshToken, user, redirected, issued>>
  /\ UNCHANGED devVars
  /\ UNCHANGED appVars

\* The response interceptor's error handler up to its first await: a failed
\* response with the given status (0 stands for a network error or timeout).
RespondError(r, status) ==
  /\ req[r].pc = "sent"
  /\ IF ShouldRefresh(status, req[r].retry)
     THEN IF refreshToken # None
          THEN \* await axios.post('/auth/refresh', {refresh_token})
               /\ req' = [req EXCEPT ![r].pc = "refreshing",
                                     ![r].retry = TRUE,
                                     ![r].rejected = req[r].hdr,
                                     ![r].refreshes = req[r].refreshes + 1]
               /\ UNCHANGED <<accessToken, user, redirected>>
          ELSE \* no refresh token: remove accessToken and user, go to /login,
               \* then Promise.reject(error)
               /\ req' = [req EXCEPT ![r].pc = "done",
                                     ![r].retry = TRUE,
                                     ![r].rejected = req[r].hdr,
                                     ![r].result = "error401"]
               /\ accessToken' = None
               /\ user' = FALSE
               /\ redirected' = TRUE
     ELSE \* Promise.reject(error)
          /\ req' = [req EXCEPT ![r].pc = "done",
                                ![r].result =
                                  IF status = 401 THEN "error401" ELSE "error"]
          /\ UNCHANGED <<accessToken, user, redirected>>
  /\ UNCHANGED <<refreshToken, issued>>
  /\ UNCHANGED devVars
  /\ UNCHANGED appVars

\* The bodies POST /auth/refresh can resolve with: success or not, with or
\* without an access_token, with or without a new refresh_token.
RefreshShapes ==
  [success : BOOLEAN, hasAccess : BOOLEAN, hasRefresh : BOOLEAN]
RefreshBody(shape) ==
  [success |-> shape.success,
   access_token |-> IF shape.hasAccess THEN issued + 1 ELSE None,
   refresh_token |-> IF shape.hasRefresh THEN issued + 2 ELSE None]
\* The number of tokens the backend issues for such a body.
Issues(shape) == IF shape.hasRefresh THEN 2 ELSE 1

\* The refresh call resolved: with an acceptable body the tokens are stored and
\* the request is re-issued; otherwise control falls out of the try block to
\* the final Promise.reject(error) with nothing cleared.
RefreshResolved(r, shape) ==
  /\ req[r].pc = "refreshing"
  /\ LET resp == RefreshBody(shape)
     IN IF RefreshAccepted(resp)
        THEN LET stored == SetTokens(accessToken, refreshToken, resp)
             IN /\ issued + Issues(shape) <= MaxTokens
                /\ issued' = issued + Issues(shape)
                /\ accessToken' = stored[1]
                /\ refreshToken' = stored[2]
                /\ req' = [req EXCEPT
                     ![r].pc = "sent",
                     ![r].hdr = RetryHeader(req[r].hdr, resp.access_token,
                                            stored[1]),
                     ![r].atSend = stored[1],
                     ![r].sends = req[r].sends + 1,
                     ![r].granted = resp.access_token,
                     ![r].outcome = "stored"]
        ELSE /\ req' = [req EXCEPT ![r].pc = "done",
                                   ![r].outcome = "reported",
                                   ![r].result = "error401"]
             /\ UNCHANGED <<accessToken, refreshToken, issued>>
  /\ UNCHANGED <<user, redirected>>
  /\ UNCHANGED devVars
  /\ UNCHANGED appVars

\* The refresh call threw (rejected refresh token, network error): the catch
\* block removes the three items, goes to /login and rejects with refreshError.
RefreshThrew(r) ==
  /\ req[r].pc = "refreshing"
  /\ accessToken' = None
  /\ refreshToken' = None
  /\ user' = FALSE
  /\ redirected' = TRUE
  /\ req' = [req EXCEPT ![r].pc = "done",
                        ![r].outcome = "cleared",
                        ![r].result = "refreshError"]
  /\ UNCHANGED issued
  /\ UNCHANGED devVars
  /\ UNCHANGED appVars

GatewayNext ==
  \/ Login
  \/ Logout
  \/ \E r \in Req : Send(r)
  \/ \E r \in Req : Respond2xx(r)
  \/ \E r \in Req, status \in {0, 401, 500} : RespondError(r, status)
  \/ \E r \in Req, shape \in RefreshShapes : RefreshResolved(r, shape)
  \/ \E r \in Req : RefreshThrew(r)


(***************************************************************************)
(* Part 2: device directory                                                *)
(***************************************************************************)

DeviceIds == {"A", "B", "X"}

\* DeviceInfo, with the fields the fingerprint reads; "" is an absent alias
\* or name. Device A is known with and without its alias, B has a name only,
\* X has neither alias nor name.
Device(id, alias, name) ==
  [deviceID |-> id, alias |-> alias, name |-> name, hardware |-> "L05C"]
DeviceInfo ==
  {Device("A", "Living Room", "Speaker-07"), Device("A", "", "Speaker-07"),
   Device("B", "", "Speaker-08"), Device("X", "", "")}

\* The bodies GET /devices can carry in data: lists without repeated ids.
DeviceLists ==
  {l \in UNION {[1..n -> DeviceInfo] : n \in 0..MaxDevices} :
     \A i, j \in 1..Len(l) : l[i].deviceID = l[j].deviceID => i = j}

\* XiaomiAccountStatus
Status(logged_in, devices_count) ==
  [logged_in |-> logged_in, devices_count |-> devices_count]

\* devicesHashRef: '' before any fetch and after a failed one, otherwise
\* JSON.stringify(list.map(d => [d.deviceID, d.alias, d.name, d.hardware])).
EmptyHash == [set |-> FALSE, tuples |-> <<>>]
Fingerprint(list) ==
  [set |-> TRUE,
   tuples |-> [i \in 1..Len(list) |->
                <<list[i].deviceID, list[i].alias, list[i].name,
                  list[i].hardware>>]]

\* list.find(d => d.deviceID === id) succeeds
HasDevice(list, id) == \E i \in 1..Len(list) : list[i].deviceID = id

\* Variant: the previous selection is always kept.
RepairSelectionKeep(prev, list) == prev
\* Variant: only a missing selection is replaced.
RepairSelectionWhenNone(prev, list) ==
  IF prev = <<>> THEN <<list[1]>> ELSE prev
\* The updater given to setSelectedDevice for a non-empty list.
RepairSelection(prev, list) ==
  IF prev = <<>> \/ ~HasDevice(list, prev[1].deviceID)
  THEN <<list[1]>>
  ELSE prev

\* Variant: no test of the in-progress flag.
AlreadyFetchingNever == FALSE
\* `if (isFetchingDevicesRef.current) return;`
AlreadyFetching == isFetchingDevices

\* Variant: only the count is taken from the device list.
NextStatusCountOnly(prev, devicesCount) ==
  [prev EXCEPT !.devices_count = devicesCount]
\* updateStatusByDevices: the updater given to setXiaomiStatus.
NextStatus(prev, devicesCount) ==
  [prev EXCEPT !.logged_in = devicesCount > 0, !.devices_count = devicesCount]
StatusChanged(prev, devicesCount) ==
  \/ prev.logged_in # NextStatus(prev, devicesCount).logged_in
  \/ prev.devices_count # NextStatus(prev, devicesCount).devices_count

\* initialXiaomi: the cached status when there is one.
InitialXiaomi(cached) ==
  IF cached # <<>> THEN cached[1] ELSE Status(FALSE, 0)

\* The bodies GET /mi/account/status can carry in data.
StatusData ==
  {Status(FALSE, Undefined)} \cup {Status(TRUE, n) : n \in 0..MaxDevices}

\* `setXiaomiStatus(response.data)`: the response replaces the state.
ExplicitStatus(prev, data) == data

\* `setXiaomiStatus({ logged_in: false })`
LoggedOut == Status(FALSE, Undefined)

\* The calls of checkXiaomiStatus: awaiting is the number of GET
\* /mi/account/status outstanding; answered says that one of them resolved
\* with data while the GET /devices that is now outstanding was in flight.
NewQuery == [awaiting |-> 0, answered |-> FALSE]
\* the provider's mount effect has called checkXiaomiStatus
MountQuery == [awaiting |-> 1, answered |-> FALSE]

\* No fetch has succeeded on this page. hash is the fingerprint of the last
\* list fetched, repeated says that it was the fingerprint of the successful
\* fetch before it as well, changed what fetchDevices made of it.
NoFetch == [hash |-> EmptyHash, repeated |-> FALSE, changed |-> FALSE]

\* A caller of fetchDevices. joined is the caller whose fetch was in flight
\* when this call returned without fetching, until that fetch completes.
NewCall == [pc |-> "idle", joined |-> 0]

\* The call that holds the outstanding GET /devices.
Owner == CHOOSE c \in Call : call[c].pc = "awaiting"

DevicesInit ==
  /\ devices = <<>>
  /\ selectedDevice = <<>>
  /\ isFetchingDevices = FALSE
  /\ devicesHash = EmptyHash
  /\ xiaomiStatus = Status(FALSE, 0)
  /\ lsSelectedDevice = <<>>
  /\ lsXiaomiStatus = <<>>
  /\ call = [c \in Call |-> NewCall]
  /\ lastFetched = NoFetch
  /\ query = MountQuery

\* The call whose GET /devices is outstanding, 0 when there is none.
InFlight ==
  IF \E o \in Call : call[o].pc = "awaiting" THEN Owner ELSE 0

\* fetchDevices up to its await: a call made during a fetch returns at once.
StartFetch(c) ==
  /\ call[c].pc \in {"idle", "returned"}
  /\ IF AlreadyFetching
     THEN /\ call' = [call EXCEPT ![c].pc = "returned",
                                  ![c].joined = InFlight]
          /\ UNCHANGED isFetchingDevices
     ELSE /\ isFetchingDevices' = TRUE
          /\ call' = [call EXCEPT ![c].pc = "awaiting", ![c].joined = 0]
  /\ UNCHANGED <<devices, selectedDevice, devicesHash, xiaomiStatus,
                 lsSelectedDevice, lsXiaomiStatus, lastFetched>>

FetchDevices(c) ==
  /\ StartFetch(c)
  /\ UNCHANGED gwVars
  /\ UNCHANGED appVars

\* Variant: the in-progress flag is left as it is.
FinishFlagKept(c) ==
  /\ UNCHANGED isFetchingDevices
  /\ call' = [d \in Call |->
       IF d = c THEN [pc |-> "returned", joined |-> 0]
       ELSE IF call[d].joined = c THEN [call[d] EXCEPT !.joined = 0]
       ELSE call[d]]
  /\ query' = [query EXCEPT !.answered = FALSE]
\* The finally block, and the return of the call to its caller.
Finish(c) ==
  /\ isFetchingDevices' = FALSE
  /\ call' = [d \in Call |->
       IF d = c THEN [pc |-> "returned", joined |-> 0]
       ELSE IF call[d].joined = c THEN [call[d] EXCEPT !.joined = 0]
       ELSE call[d]]
  /\ query' = [query EXCEPT !.answered = FALSE]

\* `const changed = newHash !== devicesHashRef.current`
Changed(newHash, stored) == newHash # stored

\* Variant: the indicator follows the list only when the list changed.
SyncsStatusWhenChanged(changed) == changed
\* updateStatusByDevices(list.length) is called after the `if (changed)`
\* block, whether or not the list changed.
SyncsStatus(changed) == TRUE

\* getDevices resolved with success and data: the try block and finally.
FetchSuccess(c, list) ==
  /\ call[c].pc = "awaiting"
  /\ IF Changed(Fingerprint(list), devicesHash)
     THEN /\ devicesHash' = Fingerprint(list)
          /\ devices' = list
          /\ selectedDevice' =
               IF Len(list) > 0 THEN RepairSelection(selectedDevice, list)
               ELSE <<>>
     ELSE UNCHANGED <<devicesHash, devices, selectedDevice>>
  /\ IF /\ SyncsStatus(Changed(Fingerprint(list), devicesHash))
        /\ StatusChanged(xiaomiStatus, Len(list))
     THEN /\ xiaomiStatus' = NextStatus(xiaomiStatus, Len(list))
          /\ lsXiaomiStatus' = <<NextStatus(xiaomiStatus, Len(list))>>
     ELSE UNCHANGED <<xiaomiStatus, lsXiaomiStatus>>
  /\ Finish(c)
  /\ UNCHANGED lsSelectedDevice
  /\ UNCHANGED gwVars
  /\ UNCHANGED <<xlogout, command, isAuthenticated, checkAuth,
                 loginPage, xlogin>>

\* getDevices resolved with success and data.
FetchSucceeded(c, list) ==
  /\ FetchSuccess(c, list)
  /\ UNCHANGED lastFetched

\* The same step where the history of the fetches is followed: the
\* fingerprint of the list is noted as that of the last successful fetch.
FetchSucceededNoted(c, list) ==
  /\ FetchSuccess(c, list)
  /\ lastFetched' =
       [hash |-> Fingerprint(list),
        repeated |-> Fingerprint(list) = lastFetched.hash,
        changed |-> Changed(Fingerprint(list), devicesHash)]

\* getDevices resolved with success=false (or without data), or threw: both
\* branches empty the list and reset the fingerprint.
FetchFailed(c) ==
  /\ call[c].pc = "awaiting"
  /\ devices' = <<>>
  /\ devicesHash' = EmptyHash
  /\ Finish(c)
  /\ UNCHANGED <<selectedDevice, xiaomiStatus, lsSelectedDevice,
                 lsXiaomiStatus, lastFetched>>
  /\ UNCHANGED gwVars
  /\ UNCHANGED <<xlogout, command, isAuthenticated, checkAuth,
                 loginPage, xlogin>>

\* DeviceSelector.handleDeviceChange: the only caller of selectDevice, with a
\* device found in the rendered list.
HandleDeviceChange(deviceId) ==
  /\ HasDevice(devices, deviceId)
  /\ LET device == devices[CHOOSE i \in 1..Len(devices) :
                              devices[i].deviceID = deviceId]
     IN /\ selectedDevice' = <<device>>
        /\ lsSelectedDevice' = <<device>>
  /\ UNCHANGED <<devices, isFetchingDevices, devicesHash, xiaomiStatus,
                 lsXiaomiStatus, call, lastFetched>>
  /\ UNCHANGED gwVars
  /\ UNCHANGED appVars

\* The components that call useAuth, each with its own React state.
Hooks == {"ProtectedRoute", "MainLayout", "SettingsPage", "LoginPage"}

\* xiaomiLogout is not running. caller and outcome keep the handler that made
\* the last call and how that call ended.
NoLogout == [pc |-> "idle", caller |-> "none", outcome |-> "none"]

\* No device-scoped command handler has run on this page.
NoCommand == [op |-> "none", device |-> <<>>, selector |-> "", sent |-> FALSE]

\* authService.isAuthenticated
IsAuthenticated(token) == token # None

\* LoginPage when it mounts: the system step, no handler running. seen is
\* xiaomiStatus.logged_in as the running handleSystemLogin captured it when
\* the page rendered, went is where the last handler of the page led.
NewLoginPage ==
  [pc |-> "idle", activeStep |-> "system", seen |-> FALSE, went |-> "none"]

\* xiaomiLogin is not running. caller and outcome keep the handler that made
\* the last call and how that call ended for it.
NoLogin == [pc |-> "idle", caller |-> "none", outcome |-> "none"]

\* What a page load does to the state of the components: useAuth starts with
\* isAuthenticated false, and the mount effect of ProtectedRoute's instance
\* runs checkAuth, which awaits GET /auth/status when a token is stored.
PageState ==
  /\ xlogout' = NoLogout
  /\ command' = NoCommand
  /\ isAuthenticated' = [h \in Hooks |-> FALSE]
  /\ checkAuth' = [h \in Hooks |->
       IF h = "ProtectedRoute" /\ IsAuthenticated(accessToken)
       THEN "awaiting" ELSE "idle"]
  /\ loginPage' = NewLoginPage
  /\ xlogin' = NoLogin

\* A page load: the provider mounts with fresh state, reads the cached vendor
\* status, and its mount effect restores the saved selection. Requests of the
\* page before are gone.
Reload ==
  /\ devices' = <<>>
  /\ devicesHash' = EmptyHash
  /\ isFetchingDevices' = FALSE
  /\ xiaomiStatus' = InitialXiaomi(lsXiaomiStatus)
  /\ selectedDevice' = lsSelectedDevice
  /\ call' = [c \in Call |-> NewCall]
  /\ lastFetched' = NoFetch
  /\ query' = MountQuery
  /\ UNCHANGED <<lsSelectedDevice, lsXiaomiStatus>>
  /\ UNCHANGED gwVars
  /\ PageState

\* DeviceSelector.handleRefresh: fetchDevices() and checkXiaomiStatus() are
\* both called before the first await. The refresh button is rendered only
\* while the indicator says logged in.
HandleRefresh(c) ==
  /\ xiaomiStatus.logged_in
  /\ query.awaiting < MaxQueries
  /\ StartFetch(c)
  /\ query' = [query EXCEPT !.awaiting = query.awaiting + 1]
  /\ UNCHANGED gwVars
  /\ UNCHANGED <<xlogout, command, isAuthenticated, checkAuth,
                 loginPage, xlogin>>

\* checkXiaomiStatus after its await, status() resolved with success and data.
StatusResolved(data) ==
  /\ query.awaiting > 0
  /\ xiaomiStatus' = ExplicitStatus(xiaomiStatus, data)
  /\ lsXiaomiStatus' = <<data>>
  /\ query' = [awaiting |-> query.awaiting - 1,
               answered |-> query.answered \/ InFlight # 0]
  /\ UNCHANGED <<devices, selectedDevice, isFetchingDevices, devicesHash,
                 lsSelectedDevice, call, lastFetched>>
  /\ UNCHANGED gwVars
  /\ UNCHANGED <<xlogout, command, isAuthenticated, checkAuth,
                 loginPage, xlogin>>

\* status() resolved with success=false or without data: nothing is written.
StatusRejected ==
  /\ query.awaiting > 0
  /\ query' = [query EXCEPT !.awaiting = query.awaiting - 1]
  /\ UNCHANGED devVars
  /\ UNCHANGED gwVars
  /\ UNCHANGED <<xlogout, command, isAuthenticated, checkAuth,
                 loginPage, xlogin>>

\* status() threw: the catch block.
StatusThrew ==
  /\ query.awaiting > 0
  /\ xiaomiStatus' = LoggedOut
  /\ lsXiaomiStatus' = <<>>
  /\ query' = [query EXCEPT !.awaiting = query.awaiting - 1]
  /\ UNCHANGED <<devices, selectedDevice, isFetchingDevices, devicesHash,
                 lsSelectedDevice, call, lastFetched>>
  /\ UNCHANGED gwVars
  /\ UNCHANGED <<xlogout, command, isAuthenticated, checkAuth,
                 loginPage, xlogin>>

\* The device directory of one caller with the history of its fetches.
HistoryNext ==
  \/ FetchDevices(1)
  \/ \E list \in DeviceLists : FetchSucceededNoted(1, list)
  \/ FetchFailed(1)
  \/ \E id \in DeviceIds : HandleDeviceChange(id)
  \/ \E data \in StatusData : StatusResolved(data)
  \/ StatusRejected
  \/ StatusThrew
  \/ Reload

DevicesNext ==
  \/ \E c \in Call : FetchDevices(c)
  \/ \E c \in Call, list \in DeviceLists : FetchSucceeded(c, list)
  \/ \E c \in Call : FetchFailed(c)
  \/ \E id \in DeviceIds : HandleDeviceChange(id)
  \/ Reload

\* The vendor indicator: explicit status queries next to device fetches.
VendorNext ==
  \/ \E c \in Call : FetchDevices(c)
  \/ \E c \in Call : HandleRefresh(c)
  \/ \E c \in Call, list \in DeviceLists : FetchSucceeded(c, list)
  \/ \E c \in Call : FetchFailed(c)
  \/ \E data \in StatusData : StatusResolved(data)
  \/ StatusRejected
  \/ StatusThrew
  \/ Reload

(***************************************************************************)
(* Part 3: vendor logout and device-scoped commands                        *)
(***************************************************************************)

\* Variant: the name is looked at before the alias.
GetDeviceSelectorNameFirst(device, selected) ==
  LET targetDevice == IF device # <<>> THEN device ELSE selected
  IN IF targetDevice = <<>> THEN ""
     ELSE IF targetDevice[1].name # "" THEN targetDevice[1].name
     ELSE IF targetDevice[1].alias # "" THEN targetDevice[1].alias
     ELSE targetDevice[1].deviceID
\* getDeviceSelector: `device ?? selectedDevice`, then
\* `alias || name || deviceID`; <<>> is null or undefined, "" an absent string.
GetDeviceSelector(device, selected) ==
  LET targetDevice == IF device # <<>> THEN device ELSE selected
  IN IF targetDevice = <<>> THEN ""
     ELSE IF targetDevice[1].alias # "" THEN targetDevice[1].alias
     ELSE IF targetDevice[1].name # "" THEN targetDevice[1].name
     ELSE targetDevice[1].deviceID

\* Variant: no test of the selector.
NoTargetNever(deviceSelector) == FALSE
\* `if (!deviceSelector)`: the handler returns before any network call.
NoTarget(deviceSelector) == deviceSelector = ""

\* The calls of playerService made by PlayerControls and TTSControl, which
\* resolve the selector with getDeviceSelector(), and by DeviceStatus, which
\* resolves it with getDeviceSelector(device || selectedDevice), device being
\* the selection the dashboard passes to it.
PlayerOps == {"playUrl", "play", "pause", "stop", "setVolume", "tts"}
DeviceStatusOps == {"getPlaybackStatus", "getVolume"}

\* An optional device argument: null or a device record.
DeviceProps == {<<>>} \cup {<<d>> : d \in DeviceInfo}

\* A device-scoped handler runs up to its first await: it resolves the
\* selector as its component did when it rendered and either returns or
\* sends its request.
Command(op) ==
  /\ LET device == IF op \in DeviceStatusOps THEN selectedDevice ELSE <<>>
         currentDevice == IF device # <<>> THEN device ELSE selectedDevice
         deviceSelector ==
           IF op \in DeviceStatusOps
           THEN GetDeviceSelector(currentDevice, selectedDevice)
           ELSE GetDeviceSelector(<<>>, selectedDevice)
     IN command' = [op |-> op, device |-> device,
                    selector |-> deviceSelector,
                    sent |-> ~NoTarget(deviceSelector)]
  /\ UNCHANGED <<query, xlogout, isAuthenticated, checkAuth,
                 loginPage, xlogin>>
  /\ UNCHANGED devVars
  /\ UNCHANGED gwVars

\* A consumer of the context calls getDeviceSelector(device) and keeps the
\* result; nothing is sent.
Resolve(device) ==
  /\ command' = [op |-> "getDeviceSelector", device |-> device,
                 selector |-> GetDeviceSelector(device, selectedDevice),
                 sent |-> FALSE]
  /\ UNCHANGED <<query, xlogout, isAuthenticated, checkAuth,
                 loginPage, xlogin>>
  /\ UNCHANGED devVars
  /\ UNCHANGED gwVars

\* useAuth.logout of the instance h: authService.logout, then the instance's
\* own state; pushState changes the address only.
UseAuthLogout(h) ==
  /\ accessToken' = None
  /\ refreshToken' = None
  /\ user' = FALSE
  /\ isAuthenticated' = [isAuthenticated EXCEPT ![h] = FALSE]

\* Variant: logout() is reached only when xiaomiLogout returned.
LogoutAfterVendorOnSuccess(outcome) == outcome = "ok"
\* MainLayout.handleLogout: the try/catch around xiaomiLogout swallows the
\* error, logout() follows however the vendor call ended.
LogoutAfterVendor(outcome) == TRUE

\* SettingsPage.handleXiaomiLogout up to the await inside xiaomiLogout. The
\* button is rendered while the indicator says logged in.
HandleXiaomiLogout ==
  /\ xiaomiStatus.logged_in
  /\ xlogout.pc = "idle"
  /\ xlogout' = [pc |-> "awaiting", caller |-> "handleXiaomiLogout",
                 outcome |-> "none"]
  /\ UNCHANGED <<query, command, isAuthenticated, checkAuth,
                 loginPage, xlogin>>
  /\ UNCHANGED devVars
  /\ UNCHANGED gwVars

\* What the caller of xiaomiLogout does once the call has ended.
AfterXiaomiLogout(outcome) ==
  /\ xlogout' = [xlogout EXCEPT !.pc = "idle", !.outcome = outcome]
  /\ IF xlogout.caller = "handleLogout" /\ LogoutAfterVendor(outcome)
     THEN UseAuthLogout("MainLayout")
     ELSE UNCHANGED <<accessToken, refreshToken, user, isAuthenticated>>
  /\ UNCHANGED <<redirected, issued, req>>
  /\ UNCHANGED <<query, command, checkAuth,
                 loginPage, xlogin>>

\* POST /mi/account/logout resolved: with success the indicator is set to
\* logged out and the persisted copy removed (devices and selection are not
\* touched); without success xiaomiLogout throws.
XiaomiLogoutResolved(success) ==
  /\ xlogout.pc = "awaiting"
  /\ IF success
     THEN /\ xiaomiStatus' = LoggedOut
          /\ lsXiaomiStatus' = <<>>
     ELSE UNCHANGED <<xiaomiStatus, lsXiaomiStatus>>
  /\ AfterXiaomiLogout(IF success THEN "ok" ELSE "failed")
  /\ UNCHANGED <<devices, selectedDevice, isFetchingDevices, devicesHash,
                 lsSelectedDevice, call, lastFetched>>

\* POST /mi/account/logout threw: xiaomiLogout rethrows.
XiaomiLogoutThrew ==
  /\ xlogout.pc = "awaiting"
  /\ AfterXiaomiLogout("threw")
  /\ UNCHANGED devVars

\* The player: the device directory of one caller, vendor logout, commands.
PlayerNext ==
  \/ FetchDevices(1)
  \/ \E list \in DeviceLists : FetchSucceeded(1, list)
  \/ FetchFailed(1)
  \/ \E id \in DeviceIds : HandleDeviceChange(id)
  \/ Reload
  \/ HandleXiaomiLogout
  \/ \E success \in BOOLEAN : XiaomiLogoutResolved(success)
  \/ XiaomiLogoutThrew
  \/ \E op \in PlayerOps \cup DeviceStatusOps : Command(op)

\* getDeviceSelector applied to every optional device, over the selections
\* the directory of one caller produces.
SelectorNext ==
  \/ FetchDevices(1)
  \/ \E list \in DeviceLists : FetchSucceeded(1, list)
  \/ FetchFailed(1)
  \/ \E id \in DeviceIds : HandleDeviceChange(id)
  \/ \E device \in DeviceProps : Resolve(device)

(***************************************************************************)
(* Part 4: the system session as the components see it                     *)
(***************************************************************************)

\* ProtectedRoute renders LoginPage: it is not loading and not authenticated.
LoginPageRendered ==
  /\ ~isAuthenticated["ProtectedRoute"]
  /\ checkAuth["ProtectedRoute"] = "idle"

\* The instance of ProtectedRoute is always mounted, the one of LoginPage
\* while ProtectedRoute renders the page, the others are mounted below
\* ProtectedRoute once it is authenticated.
Mounted(h) ==
  IF h = "ProtectedRoute" THEN TRUE
  ELSE IF h = "LoginPage" THEN LoginPageRendered
  ELSE isAuthenticated["ProtectedRoute"]

\* useAuth.checkAuth of the instance h up to its await. Without a stored
\* token the instance is set to unauthenticated at once.
CheckAuth(h) ==
  /\ checkAuth[h] = "idle"
  /\ Mounted(h)
  /\ IF IsAuthenticated(accessToken)
     THEN /\ checkAuth' = [checkAuth EXCEPT ![h] = "awaiting"]
          /\ UNCHANGED isAuthenticated
     ELSE /\ isAuthenticated' = [isAuthenticated EXCEPT ![h] = FALSE]
          /\ UNCHANGED checkAuth
  /\ UNCHANGED <<query, xlogout, command,
                 loginPage, xlogin>>
  /\ UNCHANGED devVars
  /\ UNCHANGED gwVars

\* authService.status() resolved.
CheckAuthResolved(h) ==
  /\ checkAuth[h] = "awaiting"
  /\ checkAuth' = [checkAuth EXCEPT ![h] = "idle"]
  /\ isAuthenticated' = [isAuthenticated EXCEPT ![h] = TRUE]
  /\ UNCHANGED <<query, xlogout, command,
                 loginPage, xlogin>>
  /\ UNCHANGED devVars
  /\ UNCHANGED gwVars

\* authService.status() threw, for whatever reason (network error, timeout,
\* server error): the catch block.
\* When it is the instance of ProtectedRoute, the spinner gives way to a new
\* LoginPage, whose own instance runs checkAuth as it mounts.
CheckAuthThrew(h) ==
  /\ checkAuth[h] = "awaiting"
  /\ IF h = "ProtectedRoute"
     THEN /\ checkAuth' = [checkAuth EXCEPT
               ![h] = "idle",
               !["LoginPage"] = IF IsAuthenticated(accessToken)
                                THEN "awaiting" ELSE "idle"]
          /\ isAuthenticated' = [isAuthenticated EXCEPT
               ![h] = FALSE, !["LoginPage"] = FALSE]
          /\ loginPage' = NewLoginPage
     ELSE /\ checkAuth' = [checkAuth EXCEPT ![h] = "idle"]
          /\ isAuthenticated' = [isAuthenticated EXCEPT ![h] = FALSE]
          /\ UNCHANGED loginPage
  /\ UNCHANGED <<query, xlogout, command, xlogin>>
  /\ UNCHANGED devVars
  /\ UNCHANGED gwVars

\* MainLayout.handleLogout up to its first await: with the indicator logged in
\* it calls xiaomiLogout and waits, otherwise it goes on to logout().
HandleLogout ==
  /\ isAuthenticated["ProtectedRoute"]
  /\ xlogout.pc = "idle"
  /\ IF xiaomiStatus.logged_in
     THEN /\ xlogout' = [pc |-> "awaiting", caller |-> "handleLogout",
                         outcome |-> "none"]
          /\ UNCHANGED <<accessToken, refreshToken, user, isAuthenticated>>
     ELSE /\ xlogout' = [pc |-> "idle", caller |-> "handleLogout",
                         outcome |-> "none"]
          /\ UseAuthLogout("MainLayout")
  /\ UNCHANGED <<redirected, issued, req>>
  /\ UNCHANGED <<query, command, checkAuth,
                 loginPage, xlogin>>
  /\ UNCHANGED devVars

\* SettingsPage.handleSystemLogout: logout() and nothing else.
HandleSystemLogout ==
  /\ isAuthenticated["ProtectedRoute"]
  /\ UseAuthLogout("SettingsPage")
  /\ UNCHANGED <<redirected, issued, req>>
  /\ UNCHANGED <<query, xlogout, command, checkAuth,
                 loginPage, xlogin>>
  /\ UNCHANGED devVars

\* Where the system session is followed, the status query resolves with data
\* only while an access token is stored: the backend answers the vendor
\* endpoints to a client that is logged in to the system.
SessionStatusResolved(data) ==
  /\ IsAuthenticated(accessToken)
  /\ StatusResolved(data)

\* Expiry of the system session: login, one gateway request with its
\* refresh, page loads and the status query of the mount.
ExpiryNext ==
  \/ Login
  \/ Send(1)
  \/ Respond2xx(1)
  \/ \E status \in {0, 401, 500} : RespondError(1, status)
  \/ \E shape \in RefreshShapes : RefreshResolved(1, shape)
  \/ RefreshThrew(1)
  \/ Reload
  \/ \E data \in StatusData : SessionStatusResolved(data)
  \/ StatusRejected
  \/ StatusThrew

\* The session: login, page loads, the status query of the mount, checkAuth
\* and the logout handlers.
SessionNext ==
  \/ Login
  \/ Reload
  \/ \E data \in StatusData : SessionStatusResolved(data)
  \/ StatusRejected
  \/ StatusThrew
  \/ \E h \in Hooks : CheckAuth(h)
  \/ \E h \in Hooks : CheckAuthResolved(h)
  \/ \E h \in Hooks : CheckAuthThrew(h)
  \/ HandleLogout
  \/ HandleXiaomiLogout
  \/ \E success \in BOOLEAN : XiaomiLogoutResolved(success)
  \/ XiaomiLogoutThrew
  \/ HandleSystemLogout

(***************************************************************************)
(* Part 5: the login page and the vendor login                             *)
(***************************************************************************)

\* What checkXiaomiStatus writes when status() resolved with success and
\* data, resolved otherwise, or threw.
QueryResolved(data) ==
  /\ xiaomiStatus' = ExplicitStatus(xiaomiStatus, data)
  /\ lsXiaomiStatus' = <<data>>
QueryRejected ==
  UNCHANGED <<xiaomiStatus, lsXiaomiStatus>>
\* Variant: the saved snapshot is left in place.
QueryThrewSnapshotKept ==
  /\ xiaomiStatus' = LoggedOut
  /\ UNCHANGED lsXiaomiStatus
QueryThrew ==
  /\ xiaomiStatus' = LoggedOut
  /\ lsXiaomiStatus' = <<>>

\* onLogin, which is ProtectedRoute.handleLoginSuccess, up to its await: the
\* checkAuth of ProtectedRoute's instance.
OnLogin ==
  /\ loginPage' = [loginPage EXCEPT !.pc = "idle", !.went = "console"]
  /\ IF IsAuthenticated(accessToken)
     THEN /\ checkAuth' = [checkAuth EXCEPT !["ProtectedRoute"] = "awaiting"]
          /\ UNCHANGED isAuthenticated
     ELSE /\ isAuthenticated' =
               [isAuthenticated EXCEPT !["ProtectedRoute"] = FALSE]
          /\ UNCHANGED checkAuth

\* LoginPage.handleSystemLogin up to the await inside systemLogin. The form
\* is rendered while the page's own instance is not authenticated; the
\* handler keeps the xiaomiStatus of the render it was made in.
HandleSystemLogin ==
  /\ LoginPageRendered
  /\ ~isAuthenticated["LoginPage"]
  /\ loginPage.pc = "idle"
  /\ loginPage' = [loginPage EXCEPT !.pc = "systemLogin",
                                    !.seen = xiaomiStatus.logged_in,
                                    !.went = "none"]
  /\ UNCHANGED <<query, xlogout, command, isAuthenticated, checkAuth, xlogin>>
  /\ UNCHANGED devVars
  /\ UNCHANGED gwVars

\* POST /auth/login resolved with success: login stores the session and
\* returns, and the handler awaits checkXiaomiStatus().
SystemLoginResolved ==
  /\ loginPage.pc = "systemLogin"
  /\ UseAuthLogin("LoginPage")
  /\ loginPage' = [loginPage EXCEPT !.pc = "checkXiaomiStatus"]
  /\ UNCHANGED <<query, xlogout, command, checkAuth, xlogin>>
  /\ UNCHANGED devVars

\* POST /auth/login resolved without success or threw: login throws and the
\* handler's catch block logs the error.
SystemLoginFailed ==
  /\ loginPage.pc = "systemLogin"
  /\ loginPage' = [loginPage EXCEPT !.pc = "idle"]
  /\ UNCHANGED <<query, xlogout, command, isAuthenticated, checkAuth, xlogin>>
  /\ UNCHANGED devVars
  /\ UNCHANGED gwVars

\* `if (xiaomiStatus.logged_in)` after the await: xiaomiStatus is the value
\* of the render in which the handler was made.
EntersConsole(seen, now) == seen

\* handleSystemLogin after `await checkXiaomiStatus()`.
AfterSystemLogin ==
  /\ IF EntersConsole(loginPage.seen, xiaomiStatus'.logged_in)
     THEN OnLogin
     ELSE /\ loginPage' = [loginPage EXCEPT !.pc = "idle",
                                            !.activeStep = "xiaomi",
                                            !.went = "xiaomi"]
          /\ UNCHANGED <<isAuthenticated, checkAuth>>
  /\ UNCHANGED <<devices, selectedDevice, isFetchingDevices, devicesHash,
                 lsSelectedDevice, call, lastFetched>>
  /\ UNCHANGED <<xlogout, command, xlogin>>
  /\ UNCHANGED gwVars

\* The status query of handleSystemLogin ended.
SystemStatusResolved(data) ==
  /\ loginPage.pc = "checkXiaomiStatus"
  /\ QueryResolved(data)
  /\ query' = [query EXCEPT !.answered = query.answered \/ InFlight # 0]
  /\ AfterSystemLogin
SystemStatusRejected ==
  /\ loginPage.pc = "checkXiaomiStatus"
  /\ QueryRejected
  /\ UNCHANGED query
  /\ AfterSystemLogin
SystemStatusThrew ==
  /\ loginPage.pc = "checkXiaomiStatus"
  /\ QueryThrew
  /\ UNCHANGED query
  /\ AfterSystemLogin

\* The pages with a vendor login form.
LoginForms == {"LoginPage", "SettingsPage"}

\* handleXiaomiLogin of LoginPage or SettingsPage up to the await inside
\* xiaomiLogin. Both forms are rendered while the indicator says logged out,
\* the one of LoginPage in its vendor step.
HandleXiaomiLogin(caller) ==
  /\ ~xiaomiStatus.logged_in
  /\ xlogin.pc = "idle"
  /\ caller = "LoginPage"
       => /\ LoginPageRendered
          /\ isAuthenticated["LoginPage"]
          /\ loginPage.activeStep = "xiaomi"
          /\ loginPage.pc = "idle"
  /\ xlogin' = [pc |-> "awaiting", caller |-> caller, outcome |-> "none"]
  /\ UNCHANGED <<query, xlogout, command, isAuthenticated, checkAuth,
                 loginPage>>
  /\ UNCHANGED devVars
  /\ UNCHANGED gwVars

\* POST /mi/account/login resolved with success: xiaomiLogin awaits
\* checkXiaomiStatus().
XiaomiLoginResolved ==
  /\ xlogin.pc = "awaiting"
  /\ xlogin' = [xlogin EXCEPT !.pc = "status"]
  /\ UNCHANGED <<query, xlogout, command, isAuthenticated, checkAuth,
                 loginPage>>
  /\ UNCHANGED devVars
  /\ UNCHANGED gwVars

\* POST /mi/account/login resolved without success or threw: xiaomiLogin
\* throws and the handler's catch block logs the error.
XiaomiLoginFailed ==
  /\ xlogin.pc = "awaiting"
  /\ xlogin' = [xlogin EXCEPT !.pc = "idle", !.outcome = "failed"]
  /\ UNCHANGED <<query, xlogout, command, isAuthenticated, checkAuth,
                 loginPage>>
  /\ UNCHANGED devVars
  /\ UNCHANGED gwVars

\* xiaomiLogin returns its response: LoginPage calls onLogin, SettingsPage
\* resets its form.
AfterXiaomiLogin ==
  /\ xlogin' = [xlogin EXCEPT !.pc = "idle", !.outcome = "ok"]
  /\ IF xlogin.caller = "LoginPage"
     THEN OnLogin
     ELSE UNCHANGED <<loginPage, isAuthenticated, checkAuth>>
  /\ UNCHANGED <<devices, selectedDevice, isFetchingDevices, devicesHash,
                 lsSelectedDevice, call, lastFetched>>
  /\ UNCHANGED <<xlogout, command>>
  /\ UNCHANGED gwVars

\* The bodies GET /mi/account/status can carry right after a vendor login
\* that succeeded: the account is logged in.
LoggedInData == {data \in StatusData : data.logged_in}

\* The status query inside xiaomiLogin ended; checkXiaomiStatus catches what
\* status() throws, so xiaomiLogin goes on in every case.
XiaomiLoginStatusResolved(data) ==
  /\ xlogin.pc = "status"
  /\ QueryResolved(data)
  /\ query' = [query EXCEPT !.answered = query.answered \/ InFlight # 0]
  /\ AfterXiaomiLogin
XiaomiLoginStatusRejected ==
  /\ xlogin.pc = "status"
  /\ QueryRejected
  /\ UNCHANGED query
  /\ AfterXiaomiLogin
XiaomiLoginStatusThrew ==
  /\ xlogin.pc = "status"
  /\ QueryThrew
  /\ UNCHANGED query
  /\ AfterXiaomiLogin

\* LoginPage.handleSkipXiaomi: the button of the vendor step.
HandleSkipXiaomi ==
  /\ LoginPageRendered
  /\ isAuthenticated["LoginPage"]
  /\ loginPage.activeStep = "xiaomi"
  /\ ~xiaomiStatus.logged_in
  /\ loginPage.pc = "idle"
  /\ xlogin.pc = "idle"
  /\ OnLogin
  /\ UNCHANGED <<query, xlogout, command, xlogin>>
  /\ UNCHANGED devVars
  /\ UNCHANGED gwVars

\* The button of the page's last panel, rendered while the page's instance
\* is authenticated and the indicator says logged in: onClick is onLogin.
HandleEnterConsole ==
  /\ LoginPageRendered
  /\ isAuthenticated["LoginPage"]
  /\ xiaomiStatus.logged_in
  /\ loginPage.pc = "idle"
  /\ xlogin.pc = "idle"
  /\ OnLogin
  /\ UNCHANGED <<query, xlogout, command, xlogin>>
  /\ UNCHANGED devVars
  /\ UNCHANGED gwVars

\* The hooks of the login flow.
LoginHooks == {"ProtectedRoute", "LoginPage"}

\* The login flow: the page's handlers, the checkAuth calls they lead to,
\* page loads and the status query of the mount.
LoginNext ==
  \/ HandleSystemLogin
  \/ SystemLoginResolved
  \/ SystemLoginFailed
  \/ \E data \in StatusData : SystemStatusResolved(data)
  \/ SystemStatusRejected
  \/ SystemStatusThrew
  \/ HandleXiaomiLogin("LoginPage")
  \/ XiaomiLoginResolved
  \/ XiaomiLoginFailed
  \/ \E data \in LoggedInData : XiaomiLoginStatusResolved(data)
  \/ XiaomiLoginStatusRejected
  \/ XiaomiLoginStatusThrew
  \/ HandleSkipXiaomi
  \/ HandleEnterConsole
  \/ \E h \in LoginHooks : CheckAuthResolved(h)
  \/ \E h \in LoginHooks : CheckAuthThrew(h)
  \/ Reload
  \/ \E data \in StatusData : SessionStatusResolved(data)
  \/ StatusRejected
  \/ StatusThrew

\* The vendor account: everything that writes the indicator or its saved
\* snapshot, with the device directory of one caller.
AccountNext ==
  \/ FetchDevices(1)
  \/ HandleRefresh(1)
  \/ \E list \in DeviceLists : FetchSucceeded(1, list)
  \/ FetchFailed(1)
  \/ \E data \in StatusData : StatusResolved(data)
  \/ StatusRejected
  \/ StatusThrew
  \/ HandleXiaomiLogin("SettingsPage")
  \/ XiaomiLoginResolved
  \/ XiaomiLoginFailed
  \/ \E data \in LoggedInData : XiaomiLoginStatusResolved(data)
  \/ XiaomiLoginStatusRejected
  \/ XiaomiLoginStatusThrew
  \/ HandleXiaomiLogout
  \/ \E success \in BOOLEAN : XiaomiLogoutResolved(success)
  \/ XiaomiLogoutThrew
  \/ Reload

(***************************************************************************)
(* Specifications                                                          *)
(***************************************************************************)

AppInit ==
  /\ xlogout = NoLogout
  /\ command = NoCommand
  /\ isAuthenticated = [h \in Hooks |-> FALSE]
  /\ checkAuth = [h \in Hooks |-> "idle"]
  /\ loginPage = NewLoginPage
  /\ xlogin = NoLogin

Init == GatewayInit /\ DevicesInit /\ AppInit

Next == GatewayNext \/ DevicesNext

\* the gateway alone
SpecGateway == Init /\ [][GatewayNext]_vars
\* the device directory alone
SpecDevices == Init /\ [][DevicesNext]_vars
\* the vendor indicator alone
SpecVendor == Init /\ [][VendorNext]_vars
\* the player alone
SpecPlayer == Init /\ [][PlayerNext]_vars
\* the system session alone
SpecSession == Init /\ [][SessionNext]_vars
\* expiry of the system session alone
SpecExpiry == Init /\ [][ExpiryNext]_vars
\* getDeviceSelector alone
SpecSelector == Init /\ [][SelectorNext]_vars
\* the device directory with the history of its fetches
SpecHistory == Init /\ [][HistoryNext]_vars
\* the login flow alone
SpecLogin == Init /\ [][LoginNext]_vars
\* the vendor account alone
SpecAccount == Init /\ [][AccountNext]_vars
Spec == Init /\ [][Next]_vars

(***************************************************************************)
(* Properties of the request gateway (checked under SpecGateway)           *)
(***************************************************************************)

\* The store holds nothing of the session and the page was sent to /login.
TornDown(access, refresh, usr, redir) ==
  access = None /\ refresh = None /\ ~usr /\ redir

\* C1: requests that each received a 401 for the same access token cause one
\* POST /auth/refresh between them: no two requests have both called the
\* refresh endpoint for the same rejected token.
C1_OneRefreshPerExpiry ==
  \A r1, r2 \in Req :
    (r1 # r2 /\ req[r1].refreshes > 0 /\ req[r2].refreshes > 0)
      => req[r1].rejected # req[r2].rejected

\* C2: requests that received a 401 for the same access token see one refresh
\* outcome: it never happens that the refresh of one stored new tokens and the
\* refresh of another failed and cleared the store.
C2_SameRefreshOutcome ==
  \A r1, r2 \in Req :
    (r1 # r2 /\ req[r1].refreshes > 0 /\ req[r2].refreshes > 0
       /\ req[r1].rejected = req[r2].rejected)
      => ~(req[r1].outcome = "stored" /\ req[r2].outcome = "cleared")

\* C3: a logical request goes to the network at most twice and its error
\* handler calls the refresh endpoint at most once.
C3_AtMostOneRetry ==
  \A r \in Req : req[r].sends <= 2 /\ req[r].refreshes <= 1

\* C3 witness: a re-issued request received a second 401 and ended there.
C3_Witness ==
  \E r \in Req :
    /\ req[r].pc = "done"
    /\ req[r].outcome = "stored"
    /\ req[r].result = "error401"
    /\ req[r].sends = 2
    /\ req[r].refreshes = 1

\* C4: every step in which a refresh attempt ends in failure (the call threw,
\* or its response was not accepted) leaves the access token, the refresh
\* token and the user record removed and the page sent to /login.
C4_FailedRefreshClears ==
  [][\A r \in Req :
       (req[r].pc = "refreshing" /\ req'[r].pc = "done")
         => TornDown(accessToken', refreshToken', user', redirected')]_vars

\* C5: every step that completes a call with the 401 error leaves the stored
\* credentials torn down: no 401 reaches the caller with the session standing.
C5_No401WithoutTeardown ==
  [][\A r \in Req :
       (req[r].pc # "done" /\ req'[r].pc = "done"
          /\ req'[r].result = "error401")
         => TornDown(accessToken', refreshToken', user', redirected')]_vars

\* C6: a request whose refresh succeeded has been sent exactly twice, and its
\* second send carried the access token the refresh returned, which was the
\* stored token at that moment and is not the token that was rejected.
C6_RetryUsesNewToken ==
  \A r \in Req :
    req[r].outcome = "stored"
      => /\ req[r].sends = 2
         /\ req[r].hdr = req[r].granted
         /\ req[r].hdr = req[r].atSend
         /\ req[r].hdr # req[r].rejected

\* C6 witness: a request rejected with a bearer token is in flight again after
\* its refresh succeeded.
C6_Witness ==
  \E r \in Req :
    /\ req[r].pc = "sent"
    /\ req[r].outcome = "stored"
    /\ req[r].rejected # None

\* C7: every send carried either no bearer token or the access token that was
\* in the store at the moment of sending.
C7_NoAbsentTokenSent ==
  \A r \in Req :
    req[r].sends > 0 => (req[r].hdr = None \/ req[r].hdr = req[r].atSend)

\* C7 witness: one request's failed refresh cleared the store, and after that
\* another request, rejected with the same token, had its refresh succeed and
\* is in flight again with the token now stored.
C7_Witness ==
  \E r1, r2 \in Req :
    /\ r1 # r2
    /\ req[r2].outcome = "cleared"
    /\ req[r1].outcome = "stored"
    /\ req[r1].rejected = req[r2].rejected
    /\ req[r1].pc = "sent"
    /\ accessToken # None
    /\ req[r1].hdr = accessToken

(***************************************************************************)
(* Properties of the device directory (checked under SpecDevices)          *)
(***************************************************************************)

\* The calls whose GET /devices is outstanding.
Outstanding == {c \in Call : call[c].pc = "awaiting"}

\* C8: at most one GET /devices is outstanding, and while the in-progress
\* flag is set exactly one is, however many calls were made meanwhile.
C8_OneFetchOutstanding ==
  /\ Cardinality(Outstanding) <= 1
  /\ isFetchingDevices => Cardinality(Outstanding) = 1

\* C8 witness: a call made during a fetch has returned and the one request of
\* that fetch is still outstanding.
C8_Witness ==
  \E c \in Call :
    /\ call[c].pc = "returned"
    /\ call[c].joined # 0
    /\ Cardinality(Outstanding) = 1

\* C9: a call made while a fetch was in flight has not returned to its caller
\* as long as that fetch is outstanding.
C9_WaitsForInFlightFetch ==
  \A c \in Call :
    call[c].pc = "returned" => call[c].joined = 0

\* C10: when the device list is not empty, there is a selection and its id is
\* the id of a device of the list.
C10_SelectionInList ==
  devices # <<>>
    => /\ selectedDevice # <<>>
       /\ HasDevice(devices, selectedDevice[1].deviceID)

\* C10 witness: the saved selection names a device that is not in the fetched
\* list, and the selection is the first device of the list.
C10_Witness ==
  /\ devices # <<>>
  /\ lsSelectedDevice # <<>>
  /\ ~HasDevice(devices, lsSelectedDevice[1].deviceID)
  /\ selectedDevice = <<devices[1]>>

\* A call of fetchDevices that held the GET /devices completes in this step.
Completes(c) == call[c].pc = "awaiting" /\ call'[c].pc = "returned"

\* C11: every step that completes a fetchDevices call, whether the fetch
\* succeeded or failed, leaves the selection empty when it leaves the device
\* list empty.
C11_EmptyListClearsSelection ==
  [][\A c \in Call :
       (Completes(c) /\ devices' = <<>>) => selectedDevice' = <<>>]_vars

\* C27: after every successful fetch the selected device is a record of the
\* stored list, so that the selector resolved from the selection is the one
\* resolved from the list's device with that id.
C27_SelectionIsListRecord ==
  [][\A c \in Call :
       (Completes(c) /\ devicesHash'.set /\ selectedDevice' # <<>>)
         => \E i \in 1..Len(devices') :
              /\ devices'[i] = selectedDevice'[1]
              /\ GetDeviceSelector(<<>>, selectedDevice')
                   = GetDeviceSelector(<<devices'[i]>>, <<>>)]_vars

\* C28: once a fetch has succeeded and no fetch is outstanding, a saved
\* selection that names a device of the stored list names the selected
\* device, so that the selection restored by a page load and kept by a fetch
\* of the same list is the selection held before.
C28_SavedSelectionIsSelection ==
  ( /\ Outstanding = {}
    /\ devicesHash.set
    /\ selectedDevice # <<>>
    /\ lsSelectedDevice # <<>>
    /\ HasDevice(devices, lsSelectedDevice[1].deviceID) )
    => lsSelectedDevice[1].deviceID = selectedDevice[1].deviceID

\* C30: every step that completes a fetch, whatever its outcome, leaves the
\* in-progress flag false, and a call of fetchDevices made while no request
\* is outstanding holds the request after its first step.
C30_FlagReleased ==
  [][\A c \in Call :
       /\ Completes(c) => ~isFetchingDevices'
       /\ ( /\ Outstanding = {}
            /\ call'[c] # call[c]
            /\ call'[c].pc # "idle" )
            => (call'[c].pc = "awaiting" /\ isFetchingDevices')]_vars

\* C30 witness: a fetch has failed, its caller has returned, and the call
\* made after it holds the one outstanding request.
C30_Witness ==
  /\ call[1].pc = "returned"
  /\ call[1].joined = 0
  /\ ~devicesHash.set
  /\ devices = <<>>
  /\ call[2].pc = "awaiting"
  /\ isFetchingDevices

(***************************************************************************)
(* Properties of the fetches in their order (checked under SpecHistory)    *)
(***************************************************************************)

\* What an unchanged fetch leaves behind: the list and the selection as they
\* were, the indicator as the length of the list gives it.
KeepsListSyncsStatus ==
  /\ devices' = devices
  /\ selectedDevice' = selectedDevice
  /\ xiaomiStatus'.logged_in = (Len(devices') > 0)
  /\ xiaomiStatus'.devices_count = Len(devices')

\* C23 as stated: a successful fetch whose list has the fingerprint of the
\* last successful fetch leaves the stored list and the selection unchanged
\* and sets the indicator from the length of the list.
C23_SameAsLastFetchKeepsList ==
  [][\A c \in Call :
       (Completes(c) /\ devicesHash'.set /\ lastFetched'.repeated)
         => KeepsListSyncsStatus]_vars

\* C23 amended: a successful fetch whose list has the stored fingerprint,
\* which is that of the last successful fetch when no fetch has failed and
\* the page was not loaded since, leaves the stored list and the selection
\* unchanged and sets the indicator from the length of the list.
C23_StoredFingerprintKeepsList ==
  [][\A c \in Call :
       (Completes(c) /\ devicesHash.set /\ devicesHash' = devicesHash)
         => KeepsListSyncsStatus]_vars

\* C23 witness: the last fetch found its list unchanged; the selection the
\* user made is kept although it is not the first device, and the indicator
\* says logged in with the length of the list after a status query that threw
\* had set it to logged out.
C23_Witness ==
  /\ lastFetched.repeated
  /\ ~lastFetched.changed
  /\ call[1].pc = "returned"
  /\ query.awaiting = 0
  /\ lsXiaomiStatus # <<>>
  /\ Len(devices) = 2
  /\ selectedDevice = <<devices[2]>>
  /\ xiaomiStatus = Status(TRUE, 2)

C12_InferredFromCount ==
  [][\A c \in Call :
       (Completes(c) /\ devicesHash'.set)
         => /\ xiaomiStatus'.logged_in = (Len(devices') > 0)
            /\ xiaomiStatus'.devices_count = Len(devices')]_vars

\* C12 witness: the mount query is still unanswered, a fetch has returned
\* devices, and the indicator and its persisted copy say logged in with that
\* count.
C12_Witness ==
  /\ query = MountQuery
  /\ \E c \in Call : call[c].pc = "returned"
  /\ devices # <<>>
  /\ xiaomiStatus = Status(TRUE, Len(devices))
  /\ lsXiaomiStatus = <<xiaomiStatus>>

\* C13: when a status query resolved with data while a device fetch was in
\* flight, the completion of that fetch leaves the vendor state as the
\* query wrote it.
C13_ExplicitResultWins ==
  [][\A c \in Call :
       (Completes(c) /\ query.answered) => xiaomiStatus' = xiaomiStatus]_vars

(***************************************************************************)
(* Properties of the device-scoped commands (checked under SpecPlayer) and *)
(* of getDeviceSelector (checked under SpecSelector)                       *)
(***************************************************************************)

\* A device-scoped handler ran in this step.
Resolves == command' # command /\ command'.op # "none"
\* A device-scoped handler ran in this step and sent its request.
Sends == Resolves /\ command'.sent

\* C18: every step in which a device-scoped handler sends its request starts
\* in a state where the vendor indicator says logged in.
C18_NoCommandLoggedOut ==
  [][Sends => xiaomiStatus.logged_in]_vars

\* C19: the last device-scoped handler that ran sent a request only with a
\* selector that is not the empty string.
C19_NoCommandWithoutSelector ==
  command.sent => command.selector # ""

\* C19 witness: a handler ran with no selection and returned without sending.
C19_Witness ==
  /\ command.op \in PlayerOps \cup DeviceStatusOps
  /\ selectedDevice = <<>>
  /\ command.selector = ""
  /\ ~command.sent

\* The selector of a device record: alias, else name, else device id.
IsSelectorOf(selector, d) ==
  /\ d.alias # "" => selector = d.alias
  /\ (d.alias = "" /\ d.name # "") => selector = d.name
  /\ (d.alias = "" /\ d.name = "") => selector = d.deviceID

\* C20: every step in which getDeviceSelector is applied gives the selector
\* of the supplied device when one is supplied, otherwise that of the
\* selection, and the empty string exactly when there is neither.
C20_ResolveSelector ==
  [][Resolves =>
       LET device == command'.device
           selector == command'.selector
       IN /\ device # <<>> => IsSelectorOf(selector, device[1])
          /\ (device = <<>> /\ selectedDevice # <<>>)
               => IsSelectorOf(selector, selectedDevice[1])
          /\ selector = "" <=> (device = <<>> /\ selectedDevice = <<>>)]_vars

\* C20 witness: the selector of a supplied device that has an alias was
\* resolved while another device was selected.
C20_Witness ==
  /\ command.device # <<>>
  /\ selectedDevice # <<>>
  /\ command.device[1].deviceID # selectedDevice[1].deviceID
  /\ command.device[1].alias # ""
  /\ command.selector = command.device[1].alias

(***************************************************************************)
(* Properties of the system session (checked under SpecSession, C16 under  *)
(* SpecExpiry)                                                             *)
(***************************************************************************)

\* The xiaomiLogout called by MainLayout.handleLogout is awaiting its response.
VendorLogoutAttempted ==
  xlogout.pc = "awaiting" /\ xlogout.caller = "handleLogout"

\* C14: every step that ends the logout sequence of handleLogout after its
\* vendor logout call, however that call ended, leaves neither the access
\* token nor the refresh token in storage.
C14_LogoutClearsTokens ==
  [][(VendorLogoutAttempted /\ xlogout'.outcome # "none")
       => (accessToken' = None /\ refreshToken' = None)]_vars

\* C14 witness: the vendor logout call of handleLogout threw, the indicator
\* still says logged in, and both tokens are gone.
C14_Witness ==
  /\ xlogout.caller = "handleLogout"
  /\ xlogout.outcome = "threw"
  /\ xiaomiStatus.logged_in
  /\ accessToken = None
  /\ refreshToken = None

\* System authenticated and vendor indicator logged in.
FullyConnected ==
  /\ IsAuthenticated(accessToken)
  /\ isAuthenticated["ProtectedRoute"]
  /\ xiaomiStatus.logged_in

\* C15: every step that removes the access token from the FullyConnected
\* state is the end of a vendor logout request issued by the same logout.
C15_VendorLogoutFirst ==
  [][(FullyConnected /\ ~IsAuthenticated(accessToken'))
       => VendorLogoutAttempted]_vars

\* C16: every page load that follows the forced redirect to /login starts
\* with no stored token, no authenticated useAuth instance and the vendor
\* indicator at logged_in = false.
C16_ExpiryClearsVendor ==
  [][(redirected /\ Reload)
       => /\ ~IsAuthenticated(accessToken')
          /\ \A h \in Hooks : ~isAuthenticated'[h]
          /\ ~xiaomiStatus'.logged_in]_vars

\* C17: every step that turns isAuthenticated of a useAuth instance from true
\* to false while the access token stays in storage is a page load.
C17_OnlyLogoutUnauthenticates ==
  [][\A h \in Hooks :
       (isAuthenticated[h] /\ ~isAuthenticated'[h]
          /\ IsAuthenticated(accessToken'))
         => Reload]_vars

(***************************************************************************)
(* Further properties of the vendor indicator                              *)
(***************************************************************************)

\* The saved vendor snapshot says logged in.
SnapshotLoggedIn ==
  lsXiaomiStatus # <<>> /\ lsXiaomiStatus[1].logged_in

\* C21 (checked under SpecVendor): every step in which a status query
\* fails, by a response that reports failure or by throwing, leaves the
\* indicator logged out and the saved snapshot not saying logged in.
C21_FailedQueryDegrades ==
  [][(StatusRejected \/ StatusThrew)
       => (~xiaomiStatus'.logged_in /\ ~SnapshotLoggedIn')]_vars

\* C29 (checked under SpecAccount): the saved vendor snapshot says logged in
\* exactly when the indicator does, an absent snapshot counting as logged
\* out.
C29_SnapshotAgrees ==
  xiaomiStatus.logged_in = SnapshotLoggedIn

\* C29 witness: a vendor login and a vendor logout have both succeeded, a
\* fetch has succeeded since, no status query is outstanding, and the
\* indicator and the snapshot both say logged in.
C29_Witness ==
  /\ xlogin.outcome = "ok"
  /\ xlogout.outcome = "ok"
  /\ xlogin.pc = "idle"
  /\ xlogout.pc = "idle"
  /\ query.awaiting = 0
  /\ devicesHash.set
  /\ xiaomiStatus.logged_in
  /\ SnapshotLoggedIn

(***************************************************************************)
(* Properties of the login flow (checked under SpecLogin)                  *)
(***************************************************************************)

\* C22: when the status query that handleSystemLogin makes after the system
\* login resolves with logged_in = true, the handler calls onLogin and does
\* not go to the vendor step.
C22_ExistingSessionEntersConsole ==
  [][\A data \in StatusData :
       (SystemStatusResolved(data) /\ data.logged_in)
         => (loginPage'.went = "console"
             /\ loginPage'.activeStep # "xiaomi")]_vars

\* C25: every step in which xiaomiLogin returns its response, the vendor
\* login having succeeded, leaves the indicator logged in.
C25_VendorLoginLogsIn ==
  [][(xlogin.pc = "status" /\ xlogin'.pc = "idle" /\ xlogin'.outcome = "ok")
       => xiaomiStatus'.logged_in]_vars

(***************************************************************************)
(* Further properties of the session (checked under SpecSession)           *)
(***************************************************************************)

\* C26: every step that removes the stored access token, which here only
\* the system logout does, leaves every useAuth instance unauthenticated,
\* the one of the route guard included.
C26_LogoutReachesEveryInstance ==
  [][(IsAuthenticated(accessToken) /\ ~IsAuthenticated(accessToken'))
       => \A h \in Hooks : ~isAuthenticated'[h]]_vars


=============================================================================
